---- MODULE Spec2Model ----
(***************************************************************************)
(* Model of the toy blockchain node: the miner thread owning a BlockChain  *)
(* and the pending transfers (src/block_chain.rs), and the listener loop   *)
(* that turns one connection at a time into a (reply channel, transaction) *)
(* item on the transactions channel (src/main.rs).                         *)
(***************************************************************************)
EXTENDS Integers, Sequences, FiniteSets, TLC

\* ---------------------------------------------------------------- bounds
\* Width in bits of a balance in the model (u64 in the program).
Width == 3
\* Number of transfers the clients get admitted in a run.
MaxTransfers == 2
\* Last value of the clock.
MaxTime == 4
\* Last value of the clock of a node whose clients only ask for balances.
MaxCadenceTime == 6
\* Number of requests that concurrent request handlers send in a run.
MaxRequests == 3

\* ------------------------------------------------------------ data types
Names == {"alice", "bob"}

RECURSIVE Pow2(_)
Pow2(n) == IF n = 0 THEN 1 ELSE 2 * Pow2(n - 1)

\* u64: the values a balance can hold.
U64Modulus == Pow2(Width)
U64Max == U64Modulus - 1
U64 == 0 .. U64Max

\* Option::None of HashMap::get.
None == -1

\* --block-time values the node is started with (seconds, > 0).
BlockTimes == {1}

\* Balances and amounts the clients use in their commands.
Balances == {1, U64Max}
Amounts == {1}

TransactionTransfer(sender, receiver, balance) ==
    [type |-> "Transfer", sender |-> sender, receiver |-> receiver, balance |-> balance]

TransactionCreateAccount(name, balance) ==
    [type |-> "CreateAccount", name |-> name, balance |-> balance]

TransactionBalance(name) ==
    [type |-> "Balance", name |-> name]

\* The decoded commands a client can send.
Transaction ==
    {TransactionCreateAccount(n, b) : n \in Names, b \in Balances}
    \cup {TransactionTransfer(s, r, b) : s \in Names, r \in Names, b \in Amounts}
    \cup {TransactionBalance(n) : n \in Names}

\* ----------------------------------------------------------------- state
VARIABLES
    accounts,                \* BlockChain.accounts: name -> balance or None
    blocks,                  \* BlockChain.blocks
    last_mining_time,        \* BlockChain.last_mining_time
    duration_between_blocks, \* BlockChain.duration_between_blocks
    transfers,               \* the miner thread's Vec of admitted transfers
    transactions_rx,         \* items in flight on the transactions channel
    msg_rx,                  \* messages in flight on the pending request's reply channel
    pc,                      \* miner thread: "loop", "drain", "mine", "panicked"
    current_time,            \* try_mining's local current_time
    block,                   \* try_mining's local block
    lpc,                     \* request handler: "accept", "recv", "panicked", "gone"
    now,                     \* the monotonic clock
    overflow_checks,         \* build profile: arithmetic overflow panics or wraps
    admission,               \* history: per admitted transfer, the block open at admission
    recorded,                \* history: per admitted transfer, the blocks it was recorded in
    sent,                    \* history: messages sent on the latest request's reply channel
    entered                  \* history: current_time of the previous call of try_mining

vars == <<accounts, blocks, last_mining_time, duration_between_blocks, transfers,
          transactions_rx, msg_rx, pc, current_time, block, lpc,
          now, overflow_checks, admission, recorded, sent, entered>>

\* -------------------------------------------------------- pure functions
\* A Block that loses its number.
Block_unnumbered(current_block_num, transactions) ==
    [current_block_num |-> 0, transactions |-> transactions]

Block(current_block_num, transactions) ==
    [current_block_num |-> current_block_num, transactions |-> transactions]

\* can_transfer without the test of the sender's funds.
can_transfer_ignoring_funds(accts, transfer) ==
    IF accts[transfer.sender] # None
    THEN IF accts[transfer.receiver] # None
         THEN "ok"
         ELSE "missing_receiver"
    ELSE "missing_sender"

\* can_transfer looking for the receiver before it looks at the funds.
can_transfer_receiver_first(accts, transfer) ==
    IF accts[transfer.sender] # None
    THEN IF accts[transfer.receiver] # None
         THEN IF accts[transfer.sender] >= transfer.balance
              THEN "ok"
              ELSE "insufficient_funds"
         ELSE "missing_receiver"
    ELSE "missing_sender"

\* can_transfer: "ok" for Ok(()), else the error it names.
can_transfer(accts, transfer) ==
    IF accts[transfer.sender] # None
    THEN IF accts[transfer.sender] >= transfer.balance
         THEN IF accts[transfer.receiver] # None
              THEN "ok"
              ELSE "missing_receiver"
         ELSE "insufficient_funds"
    ELSE "missing_sender"

\* transfer_between_accounts: the accounts it leaves and "ok", "err" or, when an
\* arithmetic step overflows under overflow checks, "panic".
transfer_between_accounts(accts, t, checks) ==
    IF accts[t.sender] # None /\ accts[t.sender] >= t.balance
    THEN LET debited == [accts EXCEPT ![t.sender] = @ - t.balance]
         IN  IF debited[t.receiver] # None
             THEN LET sum == debited[t.receiver] + t.balance
                  IN  IF sum > U64Max /\ checks
                      THEN [accounts |-> debited, result |-> "panic"]
                      ELSE [accounts |-> [debited EXCEPT ![t.receiver] = sum % U64Modulus],
                            result |-> "ok"]
             ELSE LET diff == debited[t.sender] - t.balance
                  IN  IF diff < 0 /\ checks
                      THEN [accounts |-> debited, result |-> "panic"]
                      ELSE [accounts |-> [debited EXCEPT ![t.sender] = diff % U64Modulus],
                            result |-> "err"]
    ELSE [accounts |-> accts, result |-> "err"]

\* BlockChain::transfer putting the transaction at the front of the block.
transfer_prepending(accts, blk, transaction, checks) ==
    IF can_transfer(accts, transaction) # "ok"
    THEN [accounts |-> accts, block |-> blk, result |-> "err"]
    ELSE LET moved == transfer_between_accounts(accts, transaction, checks)
         IN  IF moved.result = "ok"
             THEN [accounts |-> moved.accounts,
                   block |-> Block(blk.current_block_num,
                                   <<transaction>> \o blk.transactions),
                   result |-> "ok"]
             ELSE [accounts |-> moved.accounts, block |-> blk, result |-> moved.result]

\* BlockChain::transfer that validates and stops there.
transfer_validating_only(accts, blk, transaction, checks) ==
    [accounts |-> accts, block |-> blk, result |-> "err"]

\* BlockChain::transfer: the accounts and block it leaves, and how it returned.
transfer(accts, blk, transaction, checks) ==
    IF can_transfer(accts, transaction) # "ok"
    THEN [accounts |-> accts, block |-> blk, result |-> "err"]
    ELSE LET moved == transfer_between_accounts(accts, transaction, checks)
         IN  IF moved.result = "ok"
             THEN [accounts |-> moved.accounts,
                   block |-> Block(blk.current_block_num,
                                   Append(blk.transactions, transaction)),
                   result |-> "ok"]
             ELSE [accounts |-> moved.accounts, block |-> blk, result |-> moved.result]

\* The message try_mining sends for a transaction: its kind, the transaction it
\* names and the balance or amount it reports.
Message(kind, transaction, balance) ==
    [kind |-> kind, transaction |-> transaction, balance |-> balance]

\* A Balance arm that reports a balance of 0 for a name without an account.
BalanceArm_default(accts, transaction) ==
    IF accts[transaction.name] # None
    THEN Message("balance", transaction, accts[transaction.name])
    ELSE Message("balance", transaction, 0)

BalanceArm(accts, transaction) ==
    IF accts[transaction.name] # None
    THEN Message("balance", transaction, accts[transaction.name])
    ELSE Message("no_account", transaction, None)

\* An insert left for later: the accounts stay as they are.
CreateAccountInsert_deferred(accts, transaction) == accts

CreateAccountInsert(accts, transaction) ==
    [accts EXCEPT ![transaction.name] = transaction.balance]

CreateAccountArm(accts, transaction) ==
    IF accts[transaction.name] = None
    THEN Message("created", transaction,
                 CreateAccountInsert(accts, transaction)[transaction.name])
    ELSE Message("already_existing", transaction, accts[transaction.name])

TransferArm(accts, transaction) ==
    IF can_transfer(accts, transaction) = "ok"
    THEN Message("next_block", transaction, transaction.balance)
    ELSE Message(can_transfer(accts, transaction), transaction, transaction.balance)

\* ------------------------------------------------------------------ init
Init ==
    /\ accounts = [n \in Names |-> None]
    /\ blocks = <<>>
    /\ last_mining_time = 0
    /\ duration_between_blocks \in BlockTimes
    /\ transfers = <<>>
    /\ transactions_rx = <<>>
    /\ msg_rx = <<>>
    /\ pc = "loop"
    /\ current_time = 0
    /\ block = Block(0, <<>>)
    /\ lpc = "accept"
    /\ now = 0
    /\ overflow_checks \in BOOLEAN
    /\ admission = <<>>
    /\ recorded = <<>>
    /\ sent = 0
    /\ entered = 0

\* --------------------------------------------------------- miner thread
\* try_mining, entry: sample the clock and open the block.
TryMiningStart ==
    /\ pc = "loop"
    /\ current_time' = now
    /\ block' = Block(Len(blocks), <<>>)
    /\ pc' = "drain"
    /\ UNCHANGED <<accounts, blocks, last_mining_time, duration_between_blocks,
                   transfers, transactions_rx, msg_rx, lpc, now,
                   overflow_checks, admission, recorded, sent, entered>>

\* The message the while-let loop of try_mining sends for a transaction.
Reply(accts, transaction) ==
    CASE transaction.type = "Balance" -> BalanceArm(accts, transaction)
      [] transaction.type = "CreateAccount" -> CreateAccountArm(accts, transaction)
      [] transaction.type = "Transfer" -> TransferArm(accts, transaction)

\* A send that loses the message.
Send_lost(channel, msg) == channel

\* msg_tx.send(..): the reply channel with the message added.
Send(channel, msg) == Append(channel, msg)

\* A receive that takes the newest item of the channel.
try_recv_newest(channel) ==
    [item |-> channel[Len(channel)], channel |-> SubSeq(channel, 1, Len(channel) - 1)]

\* transactions_rx.try_recv() on a channel that is not empty: the item it
\* returns and the channel it leaves.
try_recv(channel) ==
    [item |-> Head(channel), channel |-> Tail(channel)]

\* try_mining, one turn of the while-let loop: pop an item, apply the
\* transaction's arm and send its message on the item's reply channel; the
\* send fails when the receiver of that channel is gone, and its expect panics.
Drain ==
    /\ pc = "drain"
    /\ transactions_rx # <<>>
    /\ LET transaction == try_recv(transactions_rx).item
           msg == Reply(accounts, transaction)
       IN  /\ transactions_rx' = try_recv(transactions_rx).channel
           /\ accounts' = IF transaction.type = "CreateAccount"
                           THEN CreateAccountInsert(accounts, transaction)
                           ELSE accounts
           /\ transfers' = IF msg.kind = "next_block"
                            THEN Append(transfers, transaction)
                            ELSE transfers
           /\ admission' = IF msg.kind = "next_block"
                            THEN Append(admission, Len(blocks))
                            ELSE admission
           /\ recorded' = IF msg.kind = "next_block"
                           THEN Append(recorded, <<>>)
                           ELSE recorded
           /\ msg_rx' = IF lpc = "gone" THEN msg_rx ELSE Send(msg_rx, msg)
           /\ sent' = Len(msg_rx') - Len(msg_rx) + sent
           /\ pc' = IF lpc = "gone" THEN "panicked" ELSE pc
    /\ UNCHANGED <<blocks, last_mining_time, duration_between_blocks, current_time,
                   block, lpc, now, overflow_checks, entered>>

\* The interval test taken from node_start_instant (the clock's 0) instead of
\* last_mining_time.
IntervalElapsed_since_start == current_time > duration_between_blocks

\* The interval test that also passes when the interval has just elapsed.
IntervalElapsed_inclusive == current_time - last_mining_time >= duration_between_blocks

\* The interval test of try_mining, against the clock sampled at entry.
IntervalElapsed == current_time - last_mining_time > duration_between_blocks

\* transfers.iter().for_each(|t| self.transfer(&mut block, t)) over the first k
\* pending transfers: the accounts and block left, the pending transfers
\* recorded, and "panic" once a call has panicked (the rest do not run).
RECURSIVE for_each(_, _, _, _, _)
for_each(accts, blk, pending, k, checks) ==
    IF k = 0
    THEN [accounts |-> accts, block |-> blk, recorded |-> {}, result |-> "ok"]
    ELSE LET before == for_each(accts, blk, pending, k - 1, checks)
             r == transfer(before.accounts, before.block, pending[k], checks)
         IN  IF before.result = "panic"
             THEN before
             ELSE [accounts |-> r.accounts,
                   block |-> r.block,
                   recorded |-> IF r.result = "ok"
                                THEN before.recorded \cup {k}
                                ELSE before.recorded,
                   result |-> IF r.result = "panic" THEN "panic" ELSE "ok"]

\* try_mining, try_recv finds the channel empty: the while-let loop ends.
LoopEnd ==
    /\ pc = "drain"
    /\ transactions_rx = <<>>
    /\ pc' = "mine"
    /\ UNCHANGED <<accounts, blocks, last_mining_time, duration_between_blocks,
                   transfers, transactions_rx, msg_rx, current_time, block, lpc, now,
                   overflow_checks, admission, recorded, sent, entered>>

\* try_mining, the interval has not elapsed: return.
Return ==
    /\ pc = "mine"
    /\ ~IntervalElapsed
    /\ entered' = current_time
    /\ pc' = "loop"
    /\ current_time' = 0
    /\ block' = Block(0, <<>>)
    /\ UNCHANGED <<accounts, blocks, last_mining_time, duration_between_blocks,
                   transfers, transactions_rx, msg_rx, lpc, now, overflow_checks,
                   admission, recorded, sent>>

\* try_mining, the interval has elapsed: run the pending transfers, push the
\* block, restart the interval and return; a panicking transfer ends the miner
\* thread with the block not pushed.
Mine ==
    /\ pc = "mine"
    /\ IntervalElapsed
    /\ entered' = current_time
    /\ LET r == for_each(accounts, block, transfers, Len(transfers), overflow_checks)
       IN  /\ accounts' = r.accounts
           /\ recorded' = [i \in 1 .. Len(transfers) |->
                              IF i \in r.recorded
                              THEN Append(recorded[i], block.current_block_num)
                              ELSE recorded[i]]
           /\ IF r.result = "panic"
              THEN /\ pc' = "panicked"
                   /\ block' = r.block
                   /\ UNCHANGED <<blocks, last_mining_time, current_time>>
              ELSE /\ pc' = "loop"
                   /\ blocks' = Append(blocks, r.block)
                   /\ last_mining_time' = now
                   /\ current_time' = 0
                   /\ block' = Block(0, <<>>)
    /\ UNCHANGED <<duration_between_blocks, transfers, transactions_rx, msg_rx, lpc,
                   now, overflow_checks, admission, sent>>

\* ------------------------------------------------------ listener thread
\* The commands the clients still send: MaxTransfers bounds the transfers that
\* get admitted.
Commands ==
    {t \in Transaction : t.type = "Transfer" => Len(transfers) < MaxTransfers}

\* process_remote_command that sends and goes back to accept without waiting
\* for the reply.
ProcessRemoteCommandOf_not_waiting(commands) ==
    /\ lpc = "accept"
    /\ pc # "panicked"
    /\ \E transaction \in commands :
           transactions_rx' = Append(transactions_rx, transaction)
    /\ msg_rx' = <<>>
    /\ sent' = 0
    /\ lpc' = "accept"
    /\ UNCHANGED <<accounts, blocks, last_mining_time, duration_between_blocks,
                   transfers, pc, current_time, block, now,
                   overflow_checks, admission, recorded, entered>>

\* The accept loop takes one command and process_remote_command sends it, with
\* a fresh reply channel, to the miner; the send fails once the miner is gone.
ProcessRemoteCommandOf(commands) ==
    /\ lpc = "accept"
    /\ pc # "panicked"
    /\ \E transaction \in commands :
           transactions_rx' = Append(transactions_rx, transaction)
    /\ msg_rx' = <<>>
    /\ sent' = 0
    /\ lpc' = "recv"
    /\ UNCHANGED <<accounts, blocks, last_mining_time, duration_between_blocks,
                   transfers, pc, current_time, block, now,
                   overflow_checks, admission, recorded, entered>>

ProcessRemoteCommand == ProcessRemoteCommandOf(Commands)

\* process_remote_command, msg_rx.recv(): take the reply and go back to accept.
Recv ==
    /\ lpc = "recv"
    /\ msg_rx # <<>>
    /\ msg_rx' = Tail(msg_rx)
    /\ lpc' = "accept"
    /\ UNCHANGED <<accounts, blocks, last_mining_time, duration_between_blocks,
                   transfers, transactions_rx, pc, current_time, block,
                   now, overflow_checks, admission, recorded, sent, entered>>

\* The miner thread has panicked and dropped its receiver: the listener's
\* send or recv fails and its expect panics.
ListenerPanic ==
    /\ pc = "panicked"
    /\ \/ lpc = "accept"
       \/ lpc = "recv" /\ msg_rx = <<>>
    /\ lpc' = "panicked"
    /\ UNCHANGED <<accounts, blocks, last_mining_time, duration_between_blocks,
                   transfers, transactions_rx, msg_rx, pc, current_time, block,
                   now, overflow_checks, admission,
                   recorded, sent, entered>>

\* ---------------------------------------------------------------- clock
TickUpTo(last) ==
    /\ now < last
    /\ now' = now + 1
    /\ UNCHANGED <<accounts, blocks, last_mining_time, duration_between_blocks,
                   transfers, transactions_rx, msg_rx, pc, current_time, block,
                   lpc, overflow_checks, admission,
                   recorded, sent, entered>>

Tick == TickUpTo(MaxTime)

Next ==
    \/ TryMiningStart
    \/ Drain
    \/ LoopEnd
    \/ Return
    \/ Mine
    \/ ProcessRemoteCommand
    \/ Recv
    \/ ListenerPanic
    \/ Tick

Spec == Init /\ [][Next]_vars

\* ------------------------------------------------- the block cadence
\* The node of the block cadence test: started as in Init, its clients ask for
\* balances only, and the clock runs up to MaxCadenceTime.
BalanceCommands == {t \in Transaction : t.type = "Balance"}

ProcessBalanceCommand == ProcessRemoteCommandOf(BalanceCommands)

TickCadence == TickUpTo(MaxCadenceTime)

NextCadence ==
    \/ TryMiningStart
    \/ Drain
    \/ LoopEnd
    \/ Return
    \/ Mine
    \/ ProcessBalanceCommand
    \/ Recv
    \/ TickCadence

SpecCadence == Init /\ [][NextCadence]_vars

\* ------------------------------------------- concurrent request handlers
\* The miner behind several request handlers that run process_remote_command
\* at the same time, each with its own clone of the sender: a handler's send
\* adds its item to the channel whatever the other handlers are waiting for.
\* msg_rx collects, in the order sent, the replies on the handlers' channels.
HandlerSend ==
    /\ pc # "panicked"
    /\ Len(transactions_rx) + Len(msg_rx) < MaxRequests
    /\ \E transaction \in Commands :
           transactions_rx' = Append(transactions_rx, transaction)
    /\ UNCHANGED <<accounts, blocks, last_mining_time, duration_between_blocks,
                   transfers, msg_rx, pc, current_time, block, lpc, now,
                   overflow_checks, admission, recorded, sent, entered>>

NextHandlers ==
    \/ TryMiningStart
    \/ Drain
    \/ LoopEnd
    \/ Return
    \/ HandlerSend

SpecHandlers == Init /\ [][NextHandlers]_vars

\* ------------------------------------------- a handler that gives up
\* The node of SpecCadence with a request handler that may stop waiting: it
\* drops the receiver of its reply channel before the miner has sent the reply.
HandlerDrop ==
    /\ lpc = "recv"
    /\ sent = 0
    /\ lpc' = "gone"
    /\ UNCHANGED <<accounts, blocks, last_mining_time, duration_between_blocks,
                   transfers, transactions_rx, msg_rx, pc, current_time, block, now,
                   overflow_checks, admission, recorded, sent, entered>>

NextDropped ==
    \/ NextCadence
    \/ HandlerDrop

SpecDropped == Init /\ [][NextDropped]_vars

\* ------------------------------------------------- a single iteration
\* One call of try_mining, from the point where it has sampled the clock and
\* opened its block: the node has run for one or two ticks without a block,
\* the accounts are those created so far and nothing is pending or in the
\* channel yet, so every transfer of the run is enqueued and admitted after
\* the clock sample of the iteration.
IterationEntries == 1 .. 2

InitIteration ==
    /\ accounts \in [Names -> Balances \cup {None}]
    /\ blocks = <<>>
    /\ last_mining_time = 0
    /\ duration_between_blocks \in BlockTimes
    /\ transfers = <<>>
    /\ transactions_rx = <<>>
    /\ msg_rx = <<>>
    /\ pc = "drain"
    /\ now \in IterationEntries
    /\ current_time = now
    /\ block = Block(0, <<>>)
    /\ lpc = "accept"
    /\ overflow_checks \in BOOLEAN
    /\ admission = <<>>
    /\ recorded = <<>>
    /\ sent = IF accounts = [n \in Names |-> None] THEN 0 ELSE 1
    /\ entered = 0

NextIteration ==
    \/ Drain
    \/ LoopEnd
    \/ Return
    \/ Mine
    \/ ProcessRemoteCommand
    \/ Recv
    \/ Tick

SpecIteration == InitIteration /\ [][NextIteration]_vars

\* ------------------------------------------------- the admission check
\* The admission check on its own: the miner is in its while-let loop with one
\* Transfer in the channel, for every choice of accounts, balances and amount
\* out of AdmissionBalances.
AdmissionBalances == {0, 1, 2}

InitAdmission ==
    /\ accounts \in [Names -> AdmissionBalances \cup {None}]
    /\ blocks = <<>>
    /\ last_mining_time = 0
    /\ duration_between_blocks \in BlockTimes
    /\ transfers = <<>>
    /\ transactions_rx \in {<<TransactionTransfer(s, r, b)>> :
                               s \in Names, r \in Names, b \in AdmissionBalances}
    /\ msg_rx = <<>>
    /\ pc = "drain"
    /\ current_time = 0
    /\ block = Block(0, <<>>)
    /\ lpc = "recv"
    /\ now = 0
    /\ overflow_checks \in BOOLEAN
    /\ admission = <<>>
    /\ recorded = <<>>
    /\ sent = 0
    /\ entered = 0

NextAdmission ==
    \/ Drain
    \/ Recv

SpecAdmission == InitAdmission /\ [][NextAdmission]_vars

TypeOK ==
    /\ accounts \in [Names -> U64 \cup {None}]
    /\ pc \in {"loop", "drain", "mine", "panicked"}
    /\ lpc \in {"accept", "recv", "panicked", "gone"}
    /\ Len(transactions_rx) <= 1
    /\ Len(msg_rx) <= 1
    /\ Len(transfers) = Len(admission) /\ Len(transfers) = Len(recorded)

\* ------------------------------------------------------ history checked
Last(seq) == seq[Len(seq)]

Range(seq) == {seq[k] : k \in 1 .. Len(seq)}

\* The pending transfers recorded for block n, in admission order.
RECURSIVE RecordedUpTo(_, _)
RecordedUpTo(n, i) ==
    IF i = 0
    THEN <<>>
    ELSE IF n \in Range(recorded[i])
         THEN Append(RecordedUpTo(n, i - 1), transfers[i])
         ELSE RecordedUpTo(n, i - 1)

\* The history variables tell what the Block Log holds.
HistoryOK ==
    /\ Len(admission) = Len(transfers)
    /\ Len(recorded) = Len(transfers)
    /\ \A n \in 1 .. Len(blocks) :
           /\ blocks[n].current_block_num = n - 1
           /\ blocks[n].transactions = RecordedUpTo(n - 1, Len(transfers))

\* ------------------------------------------------------------- claims
\* The miner pops transaction t in this step.
DrainStep(t) ==
    /\ pc = "drain"
    /\ transactions_rx # <<>>
    /\ Head(transactions_rx) = t
    /\ Len(transactions_rx') < Len(transactions_rx)

\* C1: CreateAccount for a name that already has an account replies with the
\* already-exists outcome and leaves every account's balance as it was, for
\* every new initial balance.
C1_ExistingAccountUntouched ==
    [][\A t \in Transaction :
          (DrainStep(t) /\ t.type = "CreateAccount" /\ accounts[t.name] # None)
              => /\ Last(msg_rx').kind = "already_existing"
                 /\ accounts' = accounts]_vars

\* Block n of the Block Log records pending transfer i.
InBlock(i, n) == n < Len(blocks) /\ n \in Range(recorded[i])

\* The number of blocks of the Block Log that record pending transfer i.
TimesInLog(i) ==
    Cardinality({k \in 1 .. Len(recorded[i]) : recorded[i][k] < Len(blocks)})

\* C2: each admitted Transfer is recorded in at most one block of the Block
\* Log, and so moves its amount at most once, whatever happens later.
C2_RecordedAtMostOnce ==
    \A i \in 1 .. Len(transfers) : TimesInLog(i) <= 1

\* The transfers this step adds to the Block Log.
NewlyCommitted ==
    IF Len(blocks') > Len(blocks) THEN Last(blocks').transactions ELSE <<>>

RECURSIVE Incoming(_, _)
Incoming(a, txs) ==
    IF txs = <<>>
    THEN 0
    ELSE (IF Head(txs).receiver = a THEN Head(txs).balance ELSE 0) + Incoming(a, Tail(txs))

RECURSIVE Outgoing(_, _)
Outgoing(a, txs) ==
    IF txs = <<>>
    THEN 0
    ELSE (IF Head(txs).sender = a THEN Head(txs).balance ELSE 0) + Outgoing(a, Tail(txs))

\* C3: balance(a) is the balance a was created with, plus the transfers of the
\* Block Log to a, minus those from a. Stated on the steps, which is the same
\* by induction over the run: an account starts with the balance of the
\* CreateAccount that creates it, and afterwards a step changes its balance by
\* exactly the transfers the step adds to the Block Log.
C3_BalanceFollowsBlockLog ==
    [][\A a \in Names :
          /\ accounts[a] # None =>
                 accounts'[a] = accounts[a] + Incoming(a, NewlyCommitted)
                                            - Outgoing(a, NewlyCommitted)
          /\ (accounts[a] = None /\ accounts'[a] # None) =>
                 /\ DrainStep(Head(transactions_rx))
                 /\ Head(transactions_rx).type = "CreateAccount"
                 /\ Head(transactions_rx).name = a
                 /\ accounts'[a] = Head(transactions_rx).balance]_vars

\* C4: a pending transfer that the first block produced after its admission
\* does not record (it failed commit-time validation there) is recorded in no
\* block at all.
C4_DroppedForGood ==
    \A i \in 1 .. Len(transfers) :
        (admission[i] < Len(blocks) /\ ~InBlock(i, admission[i]))
            => \A n \in 0 .. Len(blocks) - 1 : ~InBlock(i, n)

\* The condition of the claims for a transfer to go through against accts.
ValidAt(accts, t) ==
    /\ accts[t.sender] # None
    /\ accts[t.receiver] # None
    /\ accts[t.sender] >= t.balance

\* The miner runs the block production in this step.
MineStep ==
    /\ pc = "mine"
    /\ IntervalElapsed
    /\ pc' # pc

\* Block production after the first i pending transfers had their turn.
Running(i) == for_each(accounts, block, transfers, i, overflow_checks)

\* C5: at block production every pending transfer is validated, in admission
\* order, against the running balances: it is recorded in the block and moves
\* its amount from the sender to the receiver if and only if, at its turn, both
\* accounts exist and balance(sender) >= amount; otherwise it changes no
\* balance and is not recorded.
C5_CommitAgainstRunningBalances ==
    [][MineStep =>
          \A i \in 1 .. Len(transfers) :
              LET t == transfers[i]
                  before == Running(i - 1).accounts
                  after == Running(i).accounts
              IN  Running(i - 1).result # "panic" =>
                      IF ValidAt(before, t)
                      THEN /\ recorded'[i] = Append(recorded[i], Len(blocks))
                           /\ \A a \in Names :
                                  after[a] = before[a]
                                             + (IF a = t.receiver THEN t.balance ELSE 0)
                                             - (IF a = t.sender THEN t.balance ELSE 0)
                      ELSE /\ recorded'[i] = recorded[i]
                           /\ after = before]_vars

RejectionKinds == {"missing_sender", "missing_receiver", "insufficient_funds"}

\* C6: a Transfer drained while the sender has no account, the receiver has no
\* account or balance(sender) < amount gets a rejection reply, is not added to
\* the pending transfers and changes no balance; the blocks hold pending
\* transfers only, so it appears in no block.
C6_RejectedAtAdmission ==
    /\ [][\A t \in Transaction :
             (DrainStep(t) /\ t.type = "Transfer" /\ ~ValidAt(accounts, t))
                 => /\ Last(msg_rx').kind \in RejectionKinds
                    /\ transfers' = transfers
                    /\ accounts' = accounts
                    /\ blocks' = blocks]_vars
    /\ [](\A n \in 1 .. Len(blocks) :
             blocks[n].transactions = RecordedUpTo(n - 1, Len(transfers)))

\* C6 witness: a rejection for insufficient funds is on its way to the client.
C6_Witness ==
    /\ msg_rx # <<>>
    /\ Last(msg_rx).kind = "insufficient_funds"
    /\ sent = 1

\* Pending transfer i awaits the first block produced after its admission.
AwaitsFirstBlock(i) == admission[i] = Len(blocks)

\* C8: admitting a Transfer appends it to the pending transfers and leaves the
\* balances and the Block Log unchanged; a BalanceQuery reports the current
\* balance, and until the next block production no step changes the balance of
\* the sender or the receiver; the block production then lowers the sender and
\* raises the receiver by the amount (stated for a single pending transfer
\* between two accounts, as in the acceptance test).
C8_BalancesMoveOnlyAtBlockProduction ==
    [][/\ \A t \in Transaction :
             (DrainStep(t) /\ t.type = "Transfer" /\ Last(msg_rx').kind = "next_block")
                 => /\ transfers' = Append(transfers, t)
                    /\ accounts' = accounts
                    /\ blocks' = blocks
       /\ \A t \in Transaction :
             (DrainStep(t) /\ t.type = "Balance" /\ accounts[t.name] # None)
                 => Last(msg_rx') = Message("balance", t, accounts[t.name])
       /\ \A i \in 1 .. Len(transfers) :
             (AwaitsFirstBlock(i) /\ ~MineStep)
                 => /\ accounts'[transfers[i].sender] = accounts[transfers[i].sender]
                    /\ accounts'[transfers[i].receiver] = accounts[transfers[i].receiver]
       /\ (MineStep /\ Len(transfers) = 1 /\ AwaitsFirstBlock(1)
              /\ transfers[1].sender # transfers[1].receiver)
                 => /\ accounts'[transfers[1].sender]
                           = accounts[transfers[1].sender] - transfers[1].balance
                    /\ accounts'[transfers[1].receiver]
                           = accounts[transfers[1].receiver] + transfers[1].balance]_vars

\* C9: an admitted Transfer that is still valid at its turn in the block
\* production that follows its admission is recorded in the block that this
\* production appends to the Block Log (the miner reaches every boundary, so
\* this is where the transfer is eventually committed).
C9_ValidTransferCommitted ==
    [][MineStep =>
          \A i \in 1 .. Len(transfers) :
              (/\ AwaitsFirstBlock(i)
               /\ Running(i - 1).result # "panic"
               /\ ValidAt(Running(i - 1).accounts, transfers[i]))
                  => /\ Len(blocks') = Len(blocks) + 1
                     /\ Len(blocks) \in Range(recorded'[i])]_vars

\* C10: for an item popped from the transactions channel the miner has sent
\* exactly one message on the item's reply channel, and none for an item still
\* in the channel; this holds in every state, hence before the next pop and
\* before the block production of the iteration.
C10_ExactlyOneReply ==
    /\ sent <= 1
    /\ (lpc = "recv" /\ transactions_rx = <<>>) => sent = 1
    /\ (lpc = "recv" /\ transactions_rx # <<>>) => sent = 0
    /\ Len(msg_rx) <= sent

\* C10 witness: the miner has popped the item, sent its reply and gone on to
\* produce a block while the reply is still in flight.
C10_Witness ==
    /\ lpc = "recv"
    /\ transactions_rx = <<>>
    /\ Len(msg_rx) = 1
    /\ sent = 1
    /\ blocks # <<>>

\* The kind of the message the miner sends in this step.
SentKind == Last(msg_rx').kind

\* C7, as claimed: the admission check rejects a Transfer whose sender has no
\* account as unknown sender, one whose sender exists but whose receiver has
\* no account as unknown receiver whatever the amount and the sender's
\* balance, and reports insufficient funds when balance(sender) < amount.
C7_FailureNamedAsListed ==
    [][\A t \in Transaction \cup Range(transactions_rx) :
          (DrainStep(t) /\ t.type = "Transfer") =>
              /\ accounts[t.sender] = None => SentKind = "missing_sender"
              /\ (accounts[t.sender] # None /\ accounts[t.receiver] = None)
                     => SentKind = "missing_receiver"
              /\ (accounts[t.sender] # None /\ accounts[t.receiver] # None
                      /\ accounts[t.sender] < t.balance)
                     => SentKind = "insufficient_funds"]_vars

\* C7, amended: unknown sender as claimed; unknown receiver only when the
\* sender exists with balance(sender) >= amount; insufficient funds whenever
\* the sender exists with balance(sender) < amount, the receiver having an
\* account or not.
C7_FailureNamedFundsFirst ==
    [][\A t \in Transaction \cup Range(transactions_rx) :
          (DrainStep(t) /\ t.type = "Transfer") =>
              /\ accounts[t.sender] = None => SentKind = "missing_sender"
              /\ (accounts[t.sender] # None /\ accounts[t.sender] >= t.balance
                      /\ accounts[t.receiver] = None)
                     => SentKind = "missing_receiver"
              /\ (accounts[t.sender] # None /\ accounts[t.sender] < t.balance)
                     => SentKind = "insufficient_funds"]_vars

\* C7 witness: the miner has answered insufficient funds to a Transfer whose
\* receiver has no account.
C7_Witness ==
    /\ msg_rx # <<>>
    /\ Last(msg_rx).kind = "insufficient_funds"
    /\ accounts[Last(msg_rx).transaction.receiver] = None

\* C11: every operation a request handler has enqueued gets its reply. Stated
\* on the states: while a handler waits in recv for a reply that has not been
\* sent, the miner thread is alive to send it (a miner that has panicked takes
\* no further step, so the reply would never come).
C11_EveryRequestAnswered ==
    (lpc = "recv" /\ sent = 0) => pc # "panicked"

\* C12: the block at position k of the Block Log (from 0) has sequence number
\* k, and a step that produces a block appends exactly one block, numbered
\* with the length the log had, to an otherwise unchanged log: numbers start
\* at 0, go up by 1 per block and are never skipped or reused.
C12_SequenceNumberIsPosition ==
    /\ [](\A n \in 1 .. Len(blocks) : blocks[n].current_block_num = n - 1)
    /\ [][blocks' # blocks =>
             /\ Len(blocks') = Len(blocks) + 1
             /\ SubSeq(blocks', 1, Len(blocks)) = blocks
             /\ Last(blocks').current_block_num = Len(blocks)]_vars

\* C12 witness: the Block Log holds two blocks, the last one numbered 1.
C12_Witness ==
    /\ Len(blocks) = 2
    /\ blocks[2].current_block_num = 1

\* C13: every block production step, taken when the interval test passes,
\* appends exactly one block to the Block Log whatever the pending transfers
\* are; the block has no transfers when there is no pending transfer or when
\* none of them passes its validation.
C13_BlockAtEveryBoundary ==
    [][MineStep =>
          /\ Len(blocks') = Len(blocks) + 1
          /\ SubSeq(blocks', 1, Len(blocks)) = blocks
          /\ (\A i \in 1 .. Len(transfers) :
                  ~ValidAt(Running(i - 1).accounts, transfers[i]))
                 => Last(blocks').transactions = <<>>]_vars

\* The miner produces, in this step, a block that follows an earlier one.
NextBlockStep == MineStep /\ blocks # <<>>

\* The time from the production of the latest block to this step.
SinceLastBlock == now - last_mining_time

Max(a, b) == IF a >= b THEN a ELSE b

\* The longer of the previous miner iteration, taken from its entry to the
\* entry of the current one, and the current iteration up to this step.
OneIteration == Max(current_time - entered, now - current_time)

\* The previous and the current miner iteration together, up to this step.
TwoIterations == now - entered

\* C14, as claimed: the time between the production of blocks n and n+1 is
\* never less than the block interval and exceeds it by at most the duration
\* of one miner iteration.
C14_OneIterationLate ==
    [][NextBlockStep =>
          /\ SinceLastBlock >= duration_between_blocks
          /\ SinceLastBlock - duration_between_blocks <= OneIteration]_vars

\* C14, amended: the time between the production of blocks n and n+1 is never
\* less than the block interval and exceeds it by at most the duration of two
\* consecutive miner iterations, the one that found the interval not elapsed
\* yet and the one that produces the block.
C14_TwoIterationsLate ==
    [][NextBlockStep =>
          /\ SinceLastBlock >= duration_between_blocks
          /\ SinceLastBlock - duration_between_blocks <= TwoIterations]_vars

\* C14 witness: the miner is about to produce a block that follows an earlier
\* one, later than the interval by the whole of two iterations, each of
\* which took time.
C14_Witness ==
    /\ pc = "mine"
    /\ IntervalElapsed
    /\ blocks # <<>>
    /\ SinceLastBlock - duration_between_blocks = TwoIterations
    /\ current_time - entered > 0
    /\ now - current_time > 0

\* C15: a CreateAccount drained for a name without an account creates the
\* account in that very step, with no block produced; an account is never
\* removed and appears only in such a step; and a BalanceQuery reports the
\* balance of the account if it exists at that moment and not-found otherwise.
\* So every BalanceQuery processed after the creation gets the balance and
\* every one processed before gets not-found.
C15_CreateAccountTakesEffectAtOnce ==
    [][/\ \A t \in Transaction :
             (DrainStep(t) /\ t.type = "CreateAccount" /\ accounts[t.name] = None)
                 => /\ accounts' = [accounts EXCEPT ![t.name] = t.balance]
                    /\ Last(msg_rx') = Message("created", t, t.balance)
                    /\ blocks' = blocks
       /\ \A t \in Transaction :
             (DrainStep(t) /\ t.type = "Balance")
                 => Last(msg_rx') = IF accounts[t.name] # None
                                    THEN Message("balance", t, accounts[t.name])
                                    ELSE Message("no_account", t, None)
       /\ \A a \in Names :
             /\ accounts[a] # None => accounts'[a] # None
             /\ (accounts[a] = None /\ accounts'[a] # None)
                    => DrainStep(TransactionCreateAccount(a, accounts'[a]))]_vars

\* C15 witness: a BalanceQuery has been answered with the balance of an
\* account while the Block Log is still empty.
C15_Witness ==
    /\ blocks = <<>>
    /\ msg_rx # <<>>
    /\ Last(msg_rx).kind = "balance"
    /\ Last(msg_rx).balance = accounts[Last(msg_rx).transaction.name]

\* C16: processing a BalanceQuery leaves the accounts and their balances, the
\* pending transfers and the Block Log unchanged, and replies with the current
\* balance of the account if it exists and with not-found otherwise.
C16_BalanceQueryIsPureRead ==
    [][\A t \in Transaction :
          (DrainStep(t) /\ t.type = "Balance")
              => /\ accounts' = accounts
                 /\ transfers' = transfers
                 /\ blocks' = blocks
                 /\ accounts[t.name] # None
                        => /\ Last(msg_rx').kind = "balance"
                           /\ Last(msg_rx').balance = accounts[t.name]
                 /\ accounts[t.name] = None
                        => Last(msg_rx').kind = "no_account"]_vars

\* C16 witness: a BalanceQuery has been answered with not-found while a
\* transfer is pending and the Block Log holds a block.
C16_Witness ==
    /\ msg_rx # <<>>
    /\ Last(msg_rx).kind = "no_account"
    /\ Last(msg_rx).transaction.type = "Balance"
    /\ transfers # <<>>
    /\ blocks # <<>>

\* What the drain of transaction t does to the accounts and pending transfers.
AccountsAfter(t) ==
    IF t.type = "CreateAccount" THEN [accounts EXCEPT ![t.name] = t.balance] ELSE accounts

TransfersAfter(t) ==
    IF t.type = "Transfer" /\ ValidAt(accounts, t) THEN Append(transfers, t) ELSE transfers

\* C17: with several request handlers enqueuing at the same time, the miner
\* applies the operations in the order in which they entered the channel: a
\* send puts its item behind the items already there, and a pop takes the
\* oldest item, applies that operation and replies to it, leaving the others
\* in their order. So the effect and the reply of an operation enqueued
\* earlier come before those of one enqueued later.
C17_AppliedInQueueOrder ==
    [][/\ Len(transactions_rx') > Len(transactions_rx)
             => \E t \in Transaction : transactions_rx' = Append(transactions_rx, t)
       /\ Len(transactions_rx') < Len(transactions_rx)
             => /\ transactions_rx' = Tail(transactions_rx)
                /\ msg_rx' = Append(msg_rx, Reply(accounts, Head(transactions_rx)))
                /\ accounts' = AccountsAfter(Head(transactions_rx))
                /\ transfers' = TransfersAfter(Head(transactions_rx))
       /\ Len(transactions_rx') = Len(transactions_rx)
             => /\ transactions_rx' = transactions_rx
                /\ msg_rx' = msg_rx
                /\ accounts' = accounts
                /\ transfers' = transfers]_vars

\* C17 witness: two operations of different handlers wait in the channel
\* behind one that the miner, still in its drain loop, has answered; the
\* older of the two differs from the newer.
C17_Witness ==
    /\ pc = "drain"
    /\ Len(msg_rx) = 1
    /\ Len(transactions_rx) = 2
    /\ transactions_rx[1] # transactions_rx[2]

\* a is b with some of its elements left out, the others in b's order.
RECURSIVE IsSubsequence(_, _)
IsSubsequence(a, b) ==
    IF a = <<>>
    THEN TRUE
    ELSE IF b = <<>>
         THEN FALSE
         ELSE IF Head(a) = Head(b)
              THEN IsSubsequence(Tail(a), Tail(b))
              ELSE IsSubsequence(a, Tail(b))

\* C18: the transfers of every block are in admission order: the list of a
\* block, when the block is appended to the Block Log, is a subsequence of the
\* pending transfers in the order of their admission.
C18_BlockInAdmissionOrder ==
    [][Len(blocks') > Len(blocks) =>
          IsSubsequence(Last(blocks').transactions, transfers)]_vars

\* C18 witness: a block of the Block Log holds two different transfers.
C18_Witness ==
    \E n \in 1 .. Len(blocks) :
        /\ Len(blocks[n].transactions) = 2
        /\ blocks[n].transactions[1] # blocks[n].transactions[2]

\* C19: no sequence of operations crashes the miner thread, and committing a
\* transfer neither overflows the balance of the receiver nor underflows the
\* balance of the sender: at a block production every pending transfer that
\* passes its validation finds amount <= balance(sender) and
\* balance(receiver) + amount <= U64Max (after the debit).
C19_NoCrashNoOverflow ==
    /\ [](pc # "panicked")
    /\ [][MineStep =>
             \A i \in 1 .. Len(transfers) :
                 LET t == transfers[i]
                     before == Running(i - 1).accounts
                 IN  (Running(i - 1).result # "panic" /\ ValidAt(before, t))
                         => /\ before[t.sender] - t.balance >= 0
                            /\ [before EXCEPT ![t.sender] = @ - t.balance][t.receiver]
                                   + t.balance <= U64Max]_vars

\* The miner iteration ends in this step, with or without a block.
IterationEnds == pc = "mine" /\ pc' # "mine"

\* The time from the latest block to the entry of the current iteration.
Elapsed == current_time - last_mining_time

\* C20, as claimed: a block is produced in exactly those miner iterations in
\* which the elapsed time since the last block is greater than or equal to
\* the block interval; one in which it equals the interval produces a block.
C20_BlockIffIntervalReached ==
    [][IterationEnds =>
          (Len(blocks') > Len(blocks) <=> Elapsed >= duration_between_blocks)]_vars

\* C20, amended: a block is produced only in miner iterations in which the
\* elapsed time since the last block, sampled at the entry of the iteration,
\* is strictly greater than the block interval; an iteration in which it
\* equals the interval, or is smaller, produces no block.
C20_BlockOnlyPastInterval ==
    [][/\ Len(blocks') > Len(blocks)
             => (IterationEnds /\ Elapsed > duration_between_blocks)
       /\ (IterationEnds /\ Elapsed <= duration_between_blocks)
             => (blocks' = blocks /\ last_mining_time' = last_mining_time)]_vars

\* C20 witness: an iteration that sampled the clock exactly one interval after
\* the latest block has ended, and that block is still the latest.
C20_Witness ==
    /\ pc = "loop"
    /\ Len(blocks) = 1
    /\ entered - last_mining_time = duration_between_blocks

\* C21, as claimed: a Transfer enqueued and admitted after the iteration has
\* sampled its clock is not recorded in the block that this same iteration
\* produces (in a single iteration every pending transfer is such a one).
C21_NotInBlockOfSameIteration ==
    [][MineStep =>
          \A i \in 1 .. Len(transfers) : Len(blocks) \notin Range(recorded'[i])]_vars

\* C21, amended: a Transfer admitted in the drain of an iteration is among the
\* pending transfers of the block production of that same iteration: when
\* the iteration produces a block, the block records the transfer if it
\* passes the validation at its turn.
C21_InBlockOfSameIteration ==
    [][(MineStep /\ Len(blocks') > Len(blocks)) =>
          \A i \in 1 .. Len(transfers) :
              ValidAt(Running(i - 1).accounts, transfers[i])
                  => /\ Len(blocks) \in Range(recorded'[i])
                     /\ \E k \in 1 .. Len(Last(blocks').transactions) :
                            Last(blocks').transactions[k] = transfers[i]]_vars

\* C21 witness: the iteration has produced block 0, which records a transfer
\* admitted after the iteration had sampled the clock.
C21_Witness ==
    /\ pc = "loop"
    /\ Len(blocks) = 1
    /\ transfers # <<>>
    /\ blocks[1].transactions # <<>>
    /\ admission[1] = 0

\* C22: the reply send is best-effort: when the request handler has dropped
\* its reply channel before the miner sends the reply, the drain turn that
\* pops the item leaves the miner running, and it goes on to later items and
\* blocks.
C22_FailedSendIgnored ==
    [][(lpc = "gone" /\ Len(transactions_rx') < Len(transactions_rx))
          => pc' # "panicked"]_vars

\* The sum of the balances of the accounts that exist in accts.
RECURSIVE SumOver(_, _)
SumOver(accts, names) ==
    IF names = {}
    THEN 0
    ELSE LET n == CHOOSE x \in names : TRUE
         IN  (IF accts[n] = None THEN 0 ELSE accts[n]) + SumOver(accts, names \ {n})

TotalSupply(accts) == SumOver(accts, Names)

\* C23: block production conserves the total supply: the sum of all balances
\* is the same before and after every block production step, and the sum
\* changes only in the drain of a CreateAccount for a name without an
\* account, by exactly the initial balance of that account.
C23_SupplyConserved ==
    [][/\ MineStep => TotalSupply(accounts') = TotalSupply(accounts)
       /\ \A t \in Transaction :
             (DrainStep(t) /\ t.type = "CreateAccount" /\ accounts[t.name] = None)
                 => TotalSupply(accounts') = TotalSupply(accounts) + t.balance
       /\ TotalSupply(accounts') # TotalSupply(accounts)
             => \E t \in Transaction :
                    /\ DrainStep(t)
                    /\ t.type = "CreateAccount"
                    /\ accounts[t.name] = None]_vars

\* C24: the listener serializes the requests: the transactions channel never
\* holds more than one item, an item or a reply is in flight only while the
\* one request handler waits in recv (or has died there with the miner), and
\* of the request and its reply only one is in flight at a time.
C24_RequestsSerialized ==
    /\ Len(transactions_rx) <= 1
    /\ Len(transactions_rx) + Len(msg_rx) <= 1
    /\ lpc = "accept" => (transactions_rx = <<>> /\ msg_rx = <<>>)

\* C24 witness: a request waits in the channel, its handler blocked in recv,
\* after earlier requests have left a pending transfer and a block.
C24_Witness ==
    /\ Len(transactions_rx) = 1
    /\ lpc = "recv"
    /\ msg_rx = <<>>
    /\ transfers # <<>>
    /\ blocks # <<>>

====
